---- MODULE Spec2Model ----
(***************************************************************************)
(* choros: the lifecycle task scheduler (src/lifecycle.cpp) and the        *)
(* navigation graph engine (src/navigation.cpp).                           *)
(*                                                                         *)
(* Spec     : the Lifecycle object driven by add_task, add_dependency and  *)
(*            run(); run() is split at the phase hooks and at every task   *)
(*            invocation, which are the calls into external code.          *)
(***************************************************************************)
EXTENDS Integers, Sequences, FiniteSets, TLC

(***************************************************************************)
(* Bounds of the model.                                                    *)
(***************************************************************************)
\* add_dependency calls accepted over the life of the object
MaxDeps == 2
\* run() calls over the life of the object
MaxRuns == 2
\* RETRYABLE_FAILURE results returned within one execute_tasks
MaxRetries == 2
\* add_edge calls that succeed
MaxEdges == 2

\* task identifiers (std::string keys)
Ids == {"a", "b", "c"}

\* task.hpp: enum class TaskResult
TaskResult == {"SUCCESS", "RETRYABLE_FAILURE", "FATAL_FAILURE"}

\* navigation.hpp: std::optional without a value
NullOpt == "nullopt"

\* the statements of Lifecycle::run, in order
Phases == <<"declare", "calibrate", "wait", "execute_tasks", "clean", "reset">>

VARIABLES
    \* ---- Lifecycle members (lifecycle.hpp 127-137)
    task_map,       \* ids with a registered task (the task objects are opaque)
    dependencies,   \* from -> list of dependents, in insertion order
    in_degree,      \* id -> int, DOMAIN = the keys of the map
    completed,      \* set of completed ids
    \* ---- control state of run()/execute_tasks()
    pc,             \* "idle", the statement of run() about to execute, "loop"
                    \* (inside execute_tasks) or "thrown" (an exception unwinds)
    queue,          \* the local std::queue of execute_tasks
    \* ---- history (observation only; never read by the actions' guards)
    trace,          \* phases invoked by the current / latest run(), in order
    thrown,         \* the latest run() left by an exception
    runs,           \* run() calls so far
    ndeps,          \* add_dependency calls so far
    calls,          \* id -> invocations of execute() by the current execute_tasks
    retried,        \* id -> RETRYABLE_FAILURE results in the current execute_tasks
    done,           \* id -> terminal results in the current execute_tasks
    finished,       \* id -> latest terminal result ever returned, or "NONE"
    last,           \* the latest invocation of the current execute_tasks:
                    \* the id and the result it returned
    retry_watch,    \* id -> since its latest RETRYABLE_FAILURE in the current
                    \* execute_tasks: the ids that were in the queue at that
                    \* moment (ahead) and how often each was invoked (seen)
    \* ---- Navigation members (navigation.hpp 136-141)
    node_types,     \* declared node -> "PRIMARY" | "SECONDARY"
    adjacency_list, \* declared node -> list of Edge, in insertion order
    current_node,   \* std::optional<std::string>: NullOpt or an id
    \* ---- history
    nedges,         \* add_edge calls that succeeded
    ret             \* the latest Navigation call and what it returned or threw

lvars == <<task_map, dependencies, in_degree, completed, pc, queue,
           trace, thrown, runs, ndeps, calls, retried, done, finished, last,
           retry_watch>>

nvars == <<node_types, adjacency_list, current_node, nedges, ret>>

vars == <<task_map, dependencies, in_degree, completed, pc, queue,
          trace, thrown, runs, ndeps, calls, retried, done, finished, last,
          retry_watch,
          node_types, adjacency_list, current_node, nedges, ret>>

(***************************************************************************)
(* Helpers on sequences and maps.                                          *)
(***************************************************************************)
RECURSIVE Count(_, _)
Count(s, x) ==
    IF s = <<>> THEN 0
    ELSE (IF Head(s) = x THEN 1 ELSE 0) + Count(Tail(s), x)

RECURSIVE SumOver(_, _)
SumOver(f, S) ==
    IF S = {} THEN 0
    ELSE LET x == CHOOSE y \in S : TRUE
         IN f[x] + SumOver(f, S \ {x})

Range(s) == {s[i] : i \in DOMAIN s}

\* all orders in which a container without a specified order may be iterated
Orders(S) ==
    {s \in [1..Cardinality(S) -> S] : Range(s) = S}

Zero == [id \in Ids |-> 0]

\* no task has been invoked
NoCall == [id |-> "none", result |-> "NONE"]

\* the task is not waiting for a retry
NoWatch == [ahead |-> {}, seen |-> Zero]

\* std::unordered_map<string,int>::operator[] : a missing key reads as 0
Get(m, k) == IF k \in DOMAIN m THEN m[k] ELSE 0

Put(m, k, v) == [x \in DOMAIN m \cup {k} |-> IF x = k THEN v ELSE m[x]]

(***************************************************************************)
(* Lifecycle                                                               *)
(***************************************************************************)
\* the ids that occur as `to` in some dependency edge
Targets(deps) == UNION {Range(deps[f]) : f \in DOMAIN deps}

\* number of edges (with multiplicity) that end at `to`
EdgesInto(deps, to) ==
    SumOver([f \in DOMAIN deps |-> Count(deps[f], to)], DOMAIN deps)

\* build_in_degree with `= 1` in place of `++` at line 30
build_in_degree_assign(tm, deps) ==
    [id \in tm \cup Targets(deps) |-> IF id \in Targets(deps) THEN 1 ELSE 0]

\* Lifecycle::build_in_degree: clear; 0 for every registered task; ++ per edge
build_in_degree(tm, deps) ==
    [id \in tm \cup Targets(deps) |-> EdgesInto(deps, id)]

\* line 38 without `deg == 0`
get_ready_tasks_any_degree(indeg, comp) ==
    {id \in DOMAIN indeg : id \notin comp}

\* Lifecycle::get_ready_tasks: the set of ids it returns (their order is the
\* iteration order of the unordered_map, which is not specified)
get_ready_tasks(indeg, comp) ==
    {id \in DOMAIN indeg : indeg[id] = 0 /\ id \notin comp}

\* execute_tasks line 63: the test that enqueues a dependent after --in_degree
ReachedZero(deg) == deg = 0

\* lines 62-65 with `in_degree[dependent] - 1 == 0`: the decrement is tested
\* but not stored
RECURSIVE ReleaseWithoutStore(_, _, _)
ReleaseWithoutStore(deplist, indeg, q) ==
    IF deplist = <<>>
    THEN [in_degree |-> indeg, queue |-> q, completed |-> {}]
    ELSE LET d  == Head(deplist)
             nv == Get(indeg, d) - 1
         IN ReleaseWithoutStore(Tail(deplist), indeg,
                                IF ReachedZero(nv) THEN Append(q, d) ELSE q)

\* execute_tasks lines 62-65: for each dependent, in list order,
\* if (--in_degree[dependent] == 0) queue.push(dependent)
RECURSIVE Release(_, _, _)
Release(deplist, indeg, q) ==
    IF deplist = <<>>
    THEN [in_degree |-> indeg, queue |-> q, completed |-> {}]
    ELSE LET d  == Head(deplist)
             nv == Get(indeg, d) - 1
         IN Release(Tail(deplist), Put(indeg, d, nv),
                    IF ReachedZero(nv) THEN Append(q, d) ELSE q)

\* line 59-60 without the FATAL_FAILURE disjunct
IsTerminalSuccessOnly(result) == result = "SUCCESS"

\* execute_tasks line 59-60: the results after which the task is completed
IsTerminal(result) == result \in {"SUCCESS", "FATAL_FAILURE"}

\* line 68 as `result != SUCCESS`
IsRetryUnlessSuccess(result) == result # "SUCCESS"

\* execute_tasks line 68: the result after which the task is enqueued again
IsRetry(result) == result = "RETRYABLE_FAILURE"

\* line 69 with the id put at the front of the queue
RequeueFront(q, current) == <<current>> \o q

\* execute_tasks line 69: queue.push(current)
Requeue(q, current) == Append(q, current)

\* Lifecycle::is_task_completed
is_task_completed(comp, id) == id \in comp

\* Lifecycle::add_task
AddTask(id) ==
    /\ pc = "idle"
    /\ task_map' = task_map \cup {id}
    /\ UNCHANGED retry_watch
    /\ UNCHANGED nvars
    /\ UNCHANGED <<dependencies, in_degree, completed, pc, queue, trace,
                   thrown, runs, ndeps, calls, retried, done, finished, last>>

\* Lifecycle::add_dependency
AddDependency(from, to) ==
    /\ pc = "idle"
    /\ ndeps < MaxDeps
    /\ dependencies' = [dependencies EXCEPT ![from] = Append(@, to)]
    /\ ndeps' = ndeps + 1
    /\ UNCHANGED retry_watch
    /\ UNCHANGED nvars
    /\ UNCHANGED <<task_map, in_degree, completed, pc, queue, trace,
                   thrown, runs, calls, retried, done, finished, last>>

\* a call of Lifecycle::run
Run ==
    /\ pc = "idle"
    /\ runs < MaxRuns
    /\ runs' = runs + 1
    /\ pc' = "declare"
    /\ trace' = <<>>
    /\ thrown' = FALSE
    /\ UNCHANGED retry_watch
    /\ UNCHANGED nvars
    /\ UNCHANGED <<task_map, dependencies, in_degree, completed, queue,
                   ndeps, calls, retried, done, finished, last>>

\* run lines 15-17 and 19-20: one of the abstract phase hooks is called and returns
Hook(name, next) ==
    /\ pc = name
    /\ pc' = next
    /\ trace' = Append(trace, name)
    /\ UNCHANGED retry_watch
    /\ UNCHANGED nvars
    /\ UNCHANGED <<task_map, dependencies, in_degree, completed, queue,
                   thrown, runs, ndeps, calls, retried, done, finished, last>>

Declare   == Hook("declare", "calibrate")
Calibrate == Hook("calibrate", "wait")
Wait      == Hook("wait", "execute_tasks")
Reset     == Hook("reset", "idle")

\* run line 19: clean is called and returns (execute_tasks is over: the
\* record of its invocations is dropped)
Clean ==
    /\ pc = "clean"
    /\ pc' = "reset"
    /\ trace' = Append(trace, "clean")
    /\ calls' = Zero
    /\ retried' = Zero
    /\ done' = Zero
    /\ last' = NoCall
    /\ retry_watch' = [id \in Ids |-> NoWatch]
    /\ UNCHANGED nvars
    /\ UNCHANGED <<task_map, dependencies, in_degree, completed, queue,
                   thrown, runs, ndeps, finished>>

\* execute_tasks lines 45-50: build_in_degree, then seed the queue
ExecuteTasksBegin ==
    /\ pc = "execute_tasks"
    /\ LET indeg == build_in_degree(task_map, dependencies)
       IN /\ in_degree' = indeg
          /\ \E order \in Orders(get_ready_tasks(indeg, completed)) :
                 queue' = order
    /\ pc' = "loop"
    /\ trace' = Append(trace, "execute_tasks")
    /\ UNCHANGED retry_watch
    /\ UNCHANGED nvars
    /\ UNCHANGED <<task_map, dependencies, completed, thrown, runs, ndeps,
                   calls, retried, done, finished, last>>

\* execute_tasks lines 53-70: one iteration whose task returns `result`
ExecuteStep(result) ==
    /\ pc = "loop"
    /\ queue # <<>>
    /\ Head(queue) \in task_map
    /\ result = "RETRYABLE_FAILURE" => SumOver(retried, Ids) < MaxRetries
    /\ LET current == Head(queue)
           popped  == Tail(queue)
           \* lines 59-66
           r == IF IsTerminal(result)
                THEN [Release(dependencies[current], in_degree, popped)
                        EXCEPT !.completed = completed \cup {current}]
                ELSE [in_degree |-> in_degree, queue |-> popped,
                      completed |-> completed]
       IN /\ completed' = r.completed
          /\ in_degree' = r.in_degree
          \* lines 68-70
          /\ queue' = IF IsRetry(result) THEN Requeue(r.queue, current)
                                         ELSE r.queue
          \* what the task returned
          /\ calls' = [calls EXCEPT ![current] = @ + 1]
          /\ last' = [id |-> current, result |-> result]
          /\ retried' = IF result = "RETRYABLE_FAILURE"
                         THEN [retried EXCEPT ![current] = @ + 1] ELSE retried
          /\ done' = IF result # "RETRYABLE_FAILURE"
                      THEN [done EXCEPT ![current] = @ + 1] ELSE done
          /\ finished' = IF result # "RETRYABLE_FAILURE"
                          THEN [finished EXCEPT ![current] = result] ELSE finished
          /\ retry_watch' =
                [id \in Ids |->
                    IF id = current
                    THEN IF result = "RETRYABLE_FAILURE"
                         THEN [ahead |-> Range(popped), seen |-> Zero]
                         ELSE NoWatch
                    ELSE IF current \in retry_watch[id].ahead
                    THEN [retry_watch[id] EXCEPT !.seen[current] = @ + 1]
                    ELSE retry_watch[id]]
    /\ UNCHANGED nvars
    /\ UNCHANGED <<task_map, dependencies, pc, trace, thrown, runs, ndeps>>

\* execute_tasks line 56: task_map.at(current) throws std::out_of_range for an
\* id without a registered task; the exception leaves execute_tasks and run
ExecuteThrow ==
    /\ pc = "loop"
    /\ queue # <<>>
    /\ Head(queue) \notin task_map
    /\ queue' = <<>>
    /\ pc' = "thrown"
    /\ thrown' = TRUE
    /\ UNCHANGED retry_watch
    /\ UNCHANGED nvars
    /\ UNCHANGED <<task_map, dependencies, in_degree, completed, trace,
                   runs, ndeps, calls, retried, done, finished, last>>

\* run line 18: the exception of execute_tasks is not caught; run is left
\* without calling clean and reset
RunThrows ==
    /\ pc = "thrown"
    /\ pc' = "idle"
    /\ calls' = Zero
    /\ retried' = Zero
    /\ done' = Zero
    /\ last' = NoCall
    /\ retry_watch' = [id \in Ids |-> NoWatch]
    /\ UNCHANGED nvars
    /\ UNCHANGED <<task_map, dependencies, in_degree, completed, queue, trace,
                   thrown, runs, ndeps, finished>>

\* execute_tasks line 52: the queue is empty, the loop and the function end
ExecuteTasksEnd ==
    /\ pc = "loop"
    /\ queue = <<>>
    /\ pc' = "clean"
    /\ UNCHANGED retry_watch
    /\ UNCHANGED nvars
    /\ UNCHANGED <<task_map, dependencies, in_degree, completed, queue,
                   trace, thrown, runs, ndeps, calls, retried, done, finished, last>>

(***************************************************************************)
(* Navigation                                                              *)
(***************************************************************************)
\* node identifiers, listed in the order of std::string operator<
NodeOrder == <<"A", "B", "C">>

Nodes == Range(NodeOrder)

Rank(n) == CHOOSE i \in DOMAIN NodeOrder : NodeOrder[i] = n

\* navigation.hpp: enum class NodeType
NodeType == {"PRIMARY", "SECONDARY"}

\* navigation.hpp: enum class Direction, in degrees
EAST == 0
NORTH == 90
WEST == 180
SOUTH == 270

Direction == {EAST, NORTH, WEST, SOUTH}

\* edge weights offered to add_edge (non-negative)
Weights == {0, 1, 2}

\* navigation.hpp: struct Edge, as add_edge constructs it
Edge(to, weight, direction) ==
    [to |-> to, weight |-> weight, direction |-> direction,
     intersection_east |-> FALSE, intersection_north |-> FALSE,
     intersection_west |-> FALSE, intersection_south |-> FALSE]

\* Edge::orientation
orientation(e) ==
    IF e.direction = EAST \/ e.direction = WEST THEN "HORIZONTAL"
                                                  ELSE "VERTICAL"

\* lines 36-37 without `% 360`
ReverseNoWrap(direction) == direction + 180

\* add_edge lines 36-37: the direction of the reverse edge
Reverse(direction) == (direction + 180) % 360

\* add_edge lines 48-54: the flags of one reverse edge that ends at `from`
UpdateIntersection(rev_edge, direction) ==
    IF orientation(rev_edge) = "HORIZONTAL"
    THEN [rev_edge EXCEPT
            !.intersection_north = @ \/ (direction = NORTH),
            !.intersection_south = @ \/ (direction = SOUTH)]
    ELSE [rev_edge EXCEPT
            !.intersection_west = @ \/ (direction = WEST),
            !.intersection_east = @ \/ (direction = EAST)]

\* add_edge lines 39-40: the forward and the reverse edge are appended
PushEdges(adj, from, to, weight, direction) ==
    LET a1 == [adj EXCEPT ![from] = Append(@, Edge(to, weight, direction))]
    IN [a1 EXCEPT ![to] = Append(@, Edge(from, weight, Reverse(direction)))]

\* add_edge lines 43-56: every edge that ends at `from` and starts at one of
\* from's out-neighbours has its flags updated
RefreshIntersections(adj, from, direction) ==
    LET neighbours == {e.to : e \in Range(adj[from])}
    IN [n \in DOMAIN adj |->
          IF n \in neighbours
          THEN [i \in DOMAIN adj[n] |->
                  IF adj[n][i].to = from
                  THEN UpdateIntersection(adj[n][i], direction)
                  ELSE adj[n][i]]
          ELSE adj[n]]

\* add_edge without the check of `to` at lines 31-34
add_edge_unchecked_to(nt, adj, from, to, weight, direction) ==
    IF from \notin DOMAIN nt \/ to \notin DOMAIN nt
    THEN [status |-> "invalid_argument", adjacency_list |-> adj]
    ELSE IF nt[from] = "SECONDARY" /\ adj[from] # <<>>
    THEN [status |-> "logic_error", adjacency_list |-> adj]
    ELSE [status |-> "ok",
          adjacency_list |->
              RefreshIntersections(PushEdges(adj, from, to, weight, direction),
                                   from, direction)]

\* Navigation::add_edge: what it throws, and the adjacency list afterwards
add_edge(nt, adj, from, to, weight, direction) ==
    IF from \notin DOMAIN nt \/ to \notin DOMAIN nt
    THEN [status |-> "invalid_argument", adjacency_list |-> adj]
    ELSE IF nt[from] = "SECONDARY" /\ adj[from] # <<>>
    THEN [status |-> "logic_error", adjacency_list |-> adj]
    ELSE IF nt[to] = "SECONDARY" /\ adj[to] # <<>>
    THEN [status |-> "logic_error", adjacency_list |-> adj]
    ELSE [status |-> "ok",
          adjacency_list |->
              RefreshIntersections(PushEdges(adj, from, to, weight, direction),
                                   from, direction)]

\* Navigation::get_edge
get_edge(nt, adj, from, to) ==
    IF from \notin DOMAIN nt \/ to \notin DOMAIN nt
    THEN [kind |-> "invalid_argument"]
    ELSE IF \E i \in DOMAIN adj[from] : adj[from][i].to = to
    THEN LET i == CHOOSE j \in DOMAIN adj[from] :
                     /\ adj[from][j].to = to
                     /\ \A k \in 1..(j - 1) : adj[from][k].to # to
         IN [kind |-> "edge", edge |-> adj[from][i]]
    ELSE [kind |-> "nullopt"]

\* std::greater<std::pair<float, std::string>>: the order of the frontier
PairLess(p, q) ==
    \/ p[1] < q[1]
    \/ p[1] = q[1] /\ Rank(p[2]) < Rank(q[2])

\* priority_queue::top of the min-queue
Top(Q) == CHOOSE p \in Q : \A q \in Q \ {p} : PairLess(p, q)

\* line 94 without the blacklist test
EdgeNeverBlacklisted(edge, blacklist) == FALSE

\* find_path line 94: an edge into a blacklisted node is skipped
EdgeBlacklisted(edge, blacklist) == edge.to \in blacklist

\* find_path line 89: a popped node that is blacklisted is skipped
NodeBlacklisted(node, blacklist) == node \in blacklist

\* find_path lines 93-103: the edges of the popped node u, in list order.
\* dist holds the finite distances; a node without an entry is at infinity.
RECURSIVE Relax(_, _, _, _, _)
Relax(edges, u, current_dist, blacklist, st) ==
    IF edges = <<>> THEN st
    ELSE LET edge == Head(edges)
             alt  == current_dist + edge.weight
         IN IF EdgeBlacklisted(edge, blacklist)
            THEN Relax(Tail(edges), u, current_dist, blacklist, st)
            ELSE IF edge.to \notin DOMAIN st.dist \/ alt < st.dist[edge.to]
            THEN Relax(Tail(edges), u, current_dist, blacklist,
                       [st EXCEPT !.dist = Put(@, edge.to, alt),
                                  !.prev = Put(@, edge.to, u),
                                  !.queue = @ \cup {<<alt, edge.to>>}])
            ELSE Relax(Tail(edges), u, current_dist, blacklist, st)

\* find_path lines 80-104: the search loop.  An entry (alt, node) is pushed
\* only when alt is strictly below dist[node], so no entry is pushed twice
\* and the frontier is a set.
RECURSIVE Search(_, _, _, _)
Search(adj, to, blacklist, st) ==
    IF st.queue = {} THEN st
    ELSE LET top    == Top(st.queue)
             u      == top[2]
             popped == [st EXCEPT !.queue = @ \ {top}]
         IN IF u = to THEN popped
            ELSE IF NodeBlacklisted(u, blacklist)
            THEN Search(adj, to, blacklist, popped)
            ELSE IF u \notin DOMAIN adj
            THEN [popped EXCEPT !.thrown = TRUE]
            ELSE Search(adj, to, blacklist,
                        Relax(adj[u], u, top[1], blacklist, popped))

\* std::reverse
RECURSIVE SeqReverse(_)
SeqReverse(s) ==
    IF s = <<>> THEN <<>> ELSE Append(SeqReverse(Tail(s)), Head(s))

\* find_path lines 114-115: std::find_if, the first edge parent -> current
FirstEdgeTo(edges, current) ==
    IF \E i \in DOMAIN edges : edges[i].to = current
    THEN CHOOSE i \in DOMAIN edges :
             /\ edges[i].to = current
             /\ \A k \in 1..(i - 1) : edges[k].to # current
    ELSE 0

\* find_path lines 109-123: the walk along prev from `to` back to `from`.
\* prev[current] on a missing key yields "", and adjacency_list.at("") throws.
RECURSIVE Reconstruct(_, _, _, _, _)
Reconstruct(adj, prev, from, current, path) ==
    IF current = from THEN [kind |-> "path", edges |-> SeqReverse(path)]
    ELSE IF current \notin DOMAIN prev THEN [kind |-> "out_of_range"]
    ELSE LET parent == prev[current]
             i      == FirstEdgeTo(adj[parent], current)
         IN IF i = 0 THEN [kind |-> "nullopt"]
            ELSE Reconstruct(adj, prev, from, parent,
                             Append(path, adj[parent][i]))

\* Navigation::find_path: a path, std::nullopt, or the std::out_of_range of
\* adjacency_list.at on a node that was never declared
find_path(adj, cur, to, blacklist) ==
    IF cur = NullOpt THEN [kind |-> "nullopt"]
    ELSE LET st == Search(adj, to, blacklist,
                          [dist |-> Put(<<>>, cur, 0), prev |-> <<>>,
                           queue |-> {<<0, cur>>}, thrown |-> FALSE])
         IN IF st.thrown THEN [kind |-> "out_of_range"]
            ELSE IF to \notin DOMAIN st.prev THEN [kind |-> "nullopt"]
            ELSE Reconstruct(adj, st.prev, cur, to, <<>>)

\* Navigation::add_node
AddNode(node, type) ==
    /\ IF node \in DOMAIN node_types
       THEN /\ ret' = [op |-> "add_node", status |-> "invalid_argument"]
            /\ UNCHANGED <<node_types, adjacency_list>>
       ELSE /\ node_types' = Put(node_types, node, type)
            /\ adjacency_list' = Put(adjacency_list, node, <<>>)
            /\ ret' = [op |-> "add_node", status |-> "ok"]
    /\ UNCHANGED <<current_node, nedges>>
    /\ UNCHANGED lvars

\* Navigation::add_edge
AddEdge(from, to, weight, direction) ==
    /\ nedges < MaxEdges
    /\ LET r == add_edge(node_types, adjacency_list, from, to, weight,
                         direction)
       IN /\ adjacency_list' = r.adjacency_list
          /\ ret' = [op |-> "add_edge", status |-> r.status]
          /\ nedges' = IF r.status = "ok" THEN nedges + 1 ELSE nedges
    /\ UNCHANGED <<node_types, current_node>>
    /\ UNCHANGED lvars

\* Navigation::set_node
SetNode(id) ==
    /\ current_node' = id
    /\ ret' = [op |-> "set_node"]
    /\ UNCHANGED <<node_types, adjacency_list, nedges>>
    /\ UNCHANGED lvars

\* Navigation::find_path (const)
\* (find_path is const: a query made right after another query starts from
\* the same graph and current node, so queries are taken from the states
\* that the other calls leave)
FindPath(to, blacklist) ==
    /\ ret.op # "find_path"
    /\ ret' = [op |-> "find_path", to |-> to, blacklist |-> blacklist,
               value |-> find_path(adjacency_list, current_node, to,
                                   blacklist)]
    /\ UNCHANGED <<node_types, adjacency_list, current_node, nedges>>
    /\ UNCHANGED lvars

LifecycleInit ==
    /\ task_map = {}
    /\ dependencies = [id \in Ids |-> <<>>]
    /\ in_degree = <<>>
    /\ completed = {}
    /\ pc = "idle"
    /\ queue = <<>>
    /\ trace = <<>>
    /\ thrown = FALSE
    /\ runs = 0
    /\ ndeps = 0
    /\ calls = Zero
    /\ retried = Zero
    /\ done = Zero
    /\ finished = [id \in Ids |-> "NONE"]
    /\ last = NoCall
    /\ retry_watch = [id \in Ids |-> NoWatch]

NavigationInit ==
    /\ node_types = <<>>
    /\ adjacency_list = <<>>
    /\ current_node = NullOpt
    /\ nedges = 0
    /\ ret = [op |-> "none"]

Init == LifecycleInit /\ NavigationInit

Next ==
    \/ \E id \in Ids : AddTask(id)
    \/ \E from \in Ids, to \in Ids : AddDependency(from, to)
    \/ Run
    \/ Declare
    \/ Calibrate
    \/ Wait
    \/ ExecuteTasksBegin
    \/ \E result \in TaskResult : ExecuteStep(result)
    \/ ExecuteThrow
    \/ RunThrows
    \/ ExecuteTasksEnd
    \/ Clean
    \/ Reset

Spec == Init /\ [][Next]_vars

\* the (weight, direction) pairs offered to add_edge while the graph is
\* built: each direction, and two weights
EdgeInputs == {<<1, EAST>>, <<2, NORTH>>, <<1, WEST>>, <<2, SOUTH>>}

\* the graph being built: every node type, every pair of endpoints
NavNext ==
    \/ \E node \in Nodes, type \in NodeType : AddNode(node, type)
    \/ \E from \in Nodes, to \in Nodes, wd \in EdgeInputs :
           AddEdge(from, to, wd[1], wd[2])

NavSpec == Init /\ [][NavNext]_vars

\* every adjacency list that a sequence of add_edge calls builds on `nt`
RECURSIVE BuildGraph(_, _, _)
BuildGraph(nt, adj, edge_calls) ==
    IF edge_calls = <<>> THEN adj
    ELSE LET c == Head(edge_calls)
         IN BuildGraph(nt,
                       add_edge(nt, adj, c[1], c[2], c[3], c[4]).adjacency_list,
                       Tail(edge_calls))

\* path queries on a graph that add_node and add_edge have built: the nodes
\* declared, then at most MaxEdges add_edge calls that succeed (find_path
\* reads neither the node types nor the directions)
PathInit ==
    /\ LifecycleInit
    /\ \E declared \in SUBSET Nodes :
         \E n \in 0..MaxEdges :
           \E edge_calls \in [1..n -> declared \X declared \X Weights \X {EAST}] :
              /\ node_types = [node \in declared |-> "PRIMARY"]
              /\ adjacency_list =
                     BuildGraph(node_types, [node \in declared |-> <<>>],
                                edge_calls)
              /\ nedges = n
    /\ current_node = NullOpt
    /\ ret = [op |-> "none"]

PathNext ==
    \/ \E id \in Nodes \cup {NullOpt} : SetNode(id)
    \/ \E to \in Nodes, blacklist \in SUBSET Nodes : FindPath(to, blacklist)

PathSpec == PathInit /\ [][PathNext]_vars

(***************************************************************************)
(* Claims about the Lifecycle (specification Spec).                        *)
(***************************************************************************)
\* the ids named in some dependency edge
Named(deps) == {f \in DOMAIN deps : deps[f] # <<>>} \cup Targets(deps)

\* the ids reachable from `S` along dependency edges, in at most k steps
RECURSIVE Descendants(_, _, _)
Descendants(deps, S, k) ==
    IF k = 0 THEN S
    ELSE Descendants(deps, S \cup UNION {Range(deps[f]) : f \in S}, k - 1)

Acyclic(deps) ==
    \A id \in DOMAIN deps :
        id \notin Descendants(deps, Range(deps[id]), Cardinality(DOMAIN deps))

\* the step invokes the task `id`
Invokes(id) == pc = "loop" /\ calls'[id] = calls[id] + 1

\* C1: at the moment a task `to` is invoked, every `from` with a dependency
\* edge (from, to) has already returned SUCCESS or FATAL_FAILURE.
C1_PrerequisitesFirst ==
    [][\A from \in Ids, to \in Ids :
          (Invokes(to) /\ Count(dependencies[from], to) > 0)
              => finished[from] \in {"SUCCESS", "FATAL_FAILURE"}]_vars

\* C1 witness: a task with two edges into it has been invoked in a run in
\* which one of its prerequisites was retried
C1_Witness ==
    \E from \in Ids, to \in Ids :
        /\ pc = "loop"
        /\ Count(dependencies[from], to) > 0
        /\ EdgesInto(dependencies, to) >= 2
        /\ retried[from] > 0
        /\ calls[to] > 0

\* C2: when execute_tasks has ended on an acyclic dependency graph, it has
\* returned, and every registered id and every id named in a dependency edge
\* is in the completed set and was completed at most once by this run.
C2_AllCompletedOnce ==
    (pc \in {"clean", "thrown"} /\ Acyclic(dependencies)) =>
        /\ pc = "clean"
        /\ \A id \in task_map \cup Named(dependencies) :
              id \in completed /\ done[id] <= 1

\* what lines 59-66 do with the popped task `cur`: it is marked completed,
\* each edge (cur, d) decrements in_degree[d], a dependent whose in-degree
\* reaches zero is enqueued once behind the rest of the queue, nothing else
\* is enqueued, and the loop goes on
HandledAsCompleted(cur) ==
    /\ cur = Head(queue)
    /\ completed' = completed \cup {cur}
    /\ \A d \in Ids :
          Get(in_degree', d) = Get(in_degree, d) - Count(dependencies[cur], d)
    /\ \A d \in Ids :
          Count(queue', d) =
              Count(Tail(queue), d) +
              (IF Count(dependencies[cur], d) > 0 /\ Get(in_degree', d) = 0
               THEN 1 ELSE 0)
    /\ SubSeq(queue', 1, Len(queue) - 1) = Tail(queue)
    /\ pc' = "loop"
    /\ ~thrown'

C4_FatalBlocksDependents ==
    [][\A from \in Ids, to \in Ids :
          (Invokes(to) /\ Count(dependencies[from], to) > 0)
              => finished[from] = "SUCCESS"]_vars

\* C5: within one execute_tasks, a RETRYABLE_FAILURE leaves the completed
\* set and every in-degree unchanged and moves the id to the back of the
\* queue; a task that has returned its terminal result was invoked once
\* more than it was retried, is completed, and is not invoked again.
C5_RetryLeavesStateAlone ==
    [][/\ \A id \in Ids :
             (Invokes(id) /\ last'.result = "RETRYABLE_FAILURE") =>
                 /\ completed' = completed
                 /\ in_degree' = in_degree
                 /\ queue' = Append(Tail(queue), id)
       /\ \A id \in Ids :
             done'[id] >= 1 =>
                 /\ done'[id] = 1
                 /\ calls'[id] = retried'[id] + 1
                 /\ id \in completed']_vars

\* C5 witness: a task returned RETRYABLE_FAILURE twice and then SUCCESS
C5_Witness ==
    \E id \in Ids :
        /\ retried[id] = 2
        /\ done[id] = 1
        /\ calls[id] = 3
        /\ finished[id] = "SUCCESS"
        /\ id \in completed

\* C6: when a call of run() is over, it has invoked declare, calibrate,
\* wait, execute_tasks, clean and reset, once each and in this order.
C6_SixPhasesInOrder ==
    (pc = "idle" /\ runs > 0) => trace = Phases

\* C15: is_task_completed(id) is true exactly when the task under id has
\* been executed and returned SUCCESS.
C15_CompletedMeansSuccess ==
    \A id \in Ids :
        is_task_completed(completed, id) <=> finished[id] = "SUCCESS"

\* the recorded dependency edges, one per add_dependency call, as
\* (prerequisite, position in its list) pairs
RecordedEdges(deps) ==
    UNION {{<<from, i>> : i \in DOMAIN deps[from]} : from \in DOMAIN deps}

\* the number of recorded edges into id (an edge recorded twice counts twice)
RecordedEdgesInto(deps, id) ==
    Cardinality({e \in RecordedEdges(deps) : deps[e[1]][e[2]] = id})

\* the number of distinct (prerequisite, id) pairs
DistinctEdgesInto(deps, id) ==
    Cardinality({from \in DOMAIN deps : id \in Range(deps[from])})

\* execute_tasks has built the in-degrees and has not invoked a task yet
AtStart == pc = "loop" /\ calls = Zero

\* during execute_tasks: no in-degree is negative; the in-degree of an id is
\* the number of recorded edges into it whose prerequisite has not completed
\* in this run (so each edge was decremented at most once, when its
\* prerequisite completed, and a prerequisite completes at most once); and
\* every id in the queue has in-degree zero
InDegreeDynamics ==
    pc = "loop" =>
        /\ \A id \in DOMAIN in_degree :
              /\ in_degree[id] >= 0
              /\ in_degree[id] =
                    Cardinality({e \in RecordedEdges(dependencies) :
                                    /\ dependencies[e[1]][e[2]] = id
                                    /\ done[e[1]] = 0})
        /\ \A id \in Ids : done[id] <= 1
        /\ \A i \in DOMAIN queue : Get(in_degree, queue[i]) = 0

\* C16 as stated: at the start of execute_tasks the in-degree of every id is
\* the number of distinct dependency edges into it; during execution no
\* in-degree is negative, an edge is decremented at most once, and an id is
\* dequeued only at in-degree zero.
C16_InDegreeCountsDistinctEdges ==
    /\ AtStart =>
          \A id \in DOMAIN in_degree :
              in_degree[id] = DistinctEdgesInto(dependencies, id)
    /\ InDegreeDynamics

\* C16 amended: at the start of execute_tasks the in-degree of every id is
\* the number of recorded dependency edges into it, an edge recorded by two
\* add_dependency calls counting twice; during execution no in-degree is
\* negative, an edge is decremented at most once, and an id is dequeued only
\* at in-degree zero.
C16_InDegreeCountsRecordedEdges ==
    /\ AtStart =>
          /\ DOMAIN in_degree = task_map \cup Targets(dependencies)
          /\ \A id \in DOMAIN in_degree :
                in_degree[id] = RecordedEdgesInto(dependencies, id)
    /\ InDegreeDynamics

\* C16 witness: a task whose one prerequisite was recorded twice has been
\* invoked after the prerequisite completed in this run
C16_Witness ==
    \E from \in Ids, to \in Ids :
        /\ pc = "loop"
        /\ Count(dependencies[from], to) = 2
        /\ done[from] = 1
        /\ calls[to] > 0
        /\ in_degree[to] = 0

\* C17: a task whose id is in the completed set is not invoked again, in
\* this or in any later run.
C17_CompletedNeverRunsAgain ==
    [][\A id \in Ids : Invokes(id) => id \notin completed]_vars

\* C18: when a task that returned RETRYABLE_FAILURE is invoked again, every
\* other id that was in the queue at the moment of the failure has been
\* invoked exactly once since.
C18_RetryGoesToBack ==
    [][\A id \in Ids :
          Invokes(id) =>
              \A other \in retry_watch[id].ahead :
                  retry_watch[id].seen[other] = 1]_vars

\* C18 witness: a task that failed while other ids were queued is at the
\* head of the queue again, each of them invoked once in between
C18_Witness ==
    \E id \in Ids :
        /\ pc = "loop"
        /\ queue # <<>>
        /\ Head(queue) = id
        /\ retried[id] > 0
        /\ retry_watch[id].ahead # {}
        /\ \A other \in retry_watch[id].ahead :
              retry_watch[id].seen[other] = 1

\* the ids on a cycle (or self-loop) of the dependency graph
OnCycle(deps) ==
    {id \in DOMAIN deps :
        id \in Descendants(deps, Range(deps[id]), Cardinality(DOMAIN deps))}

\* the ids on a cycle and the ids that transitively depend on one
Stalled(deps) == Descendants(deps, OnCycle(deps), Cardinality(DOMAIN deps))

\* C19: during execute_tasks, an id on a cycle of the dependency graph, or
\* depending on one, has a positive in-degree and is not in the queue; no
\* step invokes it or adds it to the completed set.
C19_CycleNeverRuns ==
    /\ [](pc = "loop" =>
             \A id \in Stalled(dependencies) :
                 /\ Get(in_degree, id) > 0
                 /\ id \notin Range(queue))
    /\ [][\A id \in Stalled(dependencies) :
             /\ ~Invokes(id)
             /\ id \in completed' => id \in completed]_vars

\* C19 witness: the in-degree of an id on a cycle has been decremented by a
\* prerequisite outside the cycle that completed in this run
C19_Witness ==
    \E id \in OnCycle(dependencies), from \in Ids \ Stalled(dependencies) :
        /\ pc = "loop"
        /\ Count(dependencies[from], id) > 0
        /\ done[from] = 1
        /\ in_degree[id] < EdgesInto(dependencies, id)

(***************************************************************************)
(* Reference notions for the claims (not part of the program).             *)
(***************************************************************************)
Min(S) == CHOOSE x \in S : \A y \in S : x <= y

RECURSIVE SeqSum(_)
SeqSum(s) == IF s = <<>> THEN 0 ELSE Head(s) + SeqSum(Tail(s))

\* least total weight, per node, of the routes from the current node that
\* pass only through nodes outside the blacklist: k rounds of relaxation
\* over all stored edges; a node without an entry has no such route
RECURSIVE RouteDist(_, _, _, _)
RouteDist(adj, blacklist, d, k) ==
    IF k = 0 THEN d
    ELSE LET into(n) ==
                 UNION {{d[m] + adj[m][i].weight :
                            i \in {j \in DOMAIN adj[m] : adj[m][j].to = n}} :
                        m \in DOMAIN d \cap DOMAIN adj}
             cand(n) == into(n) \cup (IF n \in DOMAIN d THEN {d[n]} ELSE {})
             reach == {n \in (DOMAIN adj \cup DOMAIN d) \ blacklist :
                          cand(n) # {}}
         IN RouteDist(adj, blacklist, [n \in reach |-> Min(cand(n))], k - 1)

Routes(adj, cur, blacklist) ==
    RouteDist(adj, blacklist,
              IF cur \in blacklist THEN <<>> ELSE Put(<<>>, cur, 0),
              Cardinality(DOMAIN adj))

RouteExists(adj, cur, to, blacklist) ==
    to \in DOMAIN Routes(adj, cur, blacklist)

\* the edge sequence leaves cur, is connected, and ends at `to`
IsRoute(adj, cur, to, edges) ==
    /\ edges # <<>>
    /\ cur \in DOMAIN adj
    /\ \E i \in DOMAIN adj[cur] : adj[cur][i] = edges[1]
    /\ \A k \in 1..(Len(edges) - 1) :
          /\ edges[k].to \in DOMAIN adj
          /\ \E i \in DOMAIN adj[edges[k].to] :
                adj[edges[k].to][i] = edges[k + 1]
    /\ edges[Len(edges)].to = to

PathWeight(edges) == SeqSum([k \in DOMAIN edges |-> edges[k].weight])

\* find_path has just returned
Queried == ret.op = "find_path"

\* find_path has just returned a path
ReturnedPath == Queried /\ ret.value.kind = "path"

\* the compass direction opposite to d
Opposite(d) ==
    CASE d = EAST  -> WEST
      [] d = WEST  -> EAST
      [] d = NORTH -> SOUTH
      [] d = SOUTH -> NORTH

\* C7: a path returned by find_path is a connected route from the current
\* node to `to`, and the sum of the weights of its edges is the least total
\* weight of the routes from the current node to `to` that avoid the
\* blacklist.
C7_PathIsMinimumRoute ==
    ReturnedPath =>
        /\ IsRoute(adjacency_list, current_node, ret.to, ret.value.edges)
        /\ PathWeight(ret.value.edges) =
              Routes(adjacency_list, current_node, ret.blacklist)[ret.to]

\* C8: for a current node that is unset or declared, find_path returns
\* "no path" exactly when the current node is unset or no route to `to`
\* avoids the blacklist, and a path for every other query (the route from a
\* node to itself is the empty one).
C8_NoPathExactlyWhenNoRoute ==
    (Queried /\ current_node \in DOMAIN node_types \cup {NullOpt}) =>
        /\ ret.value.kind \in {"nullopt", "path"}
        /\ ret.value.kind = "nullopt" <=>
              \/ current_node = NullOpt
              \/ ~RouteExists(adjacency_list, current_node, ret.to,
                              ret.blacklist)

\* C9: no path returned by find_path visits a blacklisted node: none of its
\* edges ends at one, none starts at one, and a blacklisted target yields
\* no path.
C9_PathAvoidsBlacklist ==
    /\ ReturnedPath =>
          /\ current_node \notin ret.blacklist
          /\ \A k \in DOMAIN ret.value.edges :
                ret.value.edges[k].to \notin ret.blacklist
    /\ (Queried /\ ret.to \in ret.blacklist) => ret.value.kind # "path"

\* C9 witness: a path was returned although an edge out of the current node
\* leads to a blacklisted node
C9_Witness ==
    /\ ReturnedPath
    /\ \E i \in DOMAIN adjacency_list[current_node] :
          adjacency_list[current_node][i].to \in ret.blacklist

\* C10: the graph is symmetric: every stored edge a -> b carries a compass
\* direction and has a stored edge b -> a of the same weight and the
\* opposite direction, and get_edge finds an edge both ways.
C10_GraphSymmetric ==
    \A a \in DOMAIN adjacency_list :
        \A i \in DOMAIN adjacency_list[a] :
            LET e == adjacency_list[a][i]
            IN /\ e.direction \in Direction
               /\ e.to \in DOMAIN adjacency_list
               /\ \E j \in DOMAIN adjacency_list[e.to] :
                     /\ adjacency_list[e.to][j].to = a
                     /\ adjacency_list[e.to][j].weight = e.weight
                     /\ adjacency_list[e.to][j].direction =
                           Opposite(e.direction)
               /\ get_edge(node_types, adjacency_list, a, e.to).kind = "edge"
               /\ get_edge(node_types, adjacency_list, e.to, a).kind = "edge"

\* C10 witness: two add_edge calls succeeded and left, at two different
\* nodes, an edge towards EAST and an edge towards NORTH
C10_Witness ==
    /\ nedges = 2
    /\ ret = [op |-> "add_edge", status |-> "ok"]
    /\ \E a \in DOMAIN adjacency_list, b \in DOMAIN adjacency_list :
          /\ a # b
          /\ \E i \in DOMAIN adjacency_list[a] :
                adjacency_list[a][i].direction = EAST
          /\ \E i \in DOMAIN adjacency_list[b] :
                adjacency_list[b][i].direction = NORTH

\* C11: right after a call add_edge(a, b, w, d) that succeeded, get_edge(a, b)
\* returns an edge of weight w and direction d, also when edges between a
\* and b were stored before.
C11_EdgeRoundTrip ==
    [][\A from \in Nodes, to \in Nodes, weight \in Weights, direction \in Direction :
          LET r == add_edge(node_types, adjacency_list, from, to, weight,
                            direction)
          IN (/\ nedges' = nedges + 1
              /\ r.status = "ok"
              /\ adjacency_list' = r.adjacency_list)
             => LET g == get_edge(node_types', adjacency_list', from, to)
                IN /\ g.kind = "edge"
                   /\ g.edge.weight = weight
                   /\ g.edge.direction = direction]_vars

\* the stored edges that end at node n, as (start node, index) pairs
EdgesEndingAt(adj, n) ==
    {p \in UNION {{<<m, i>> : i \in DOMAIN adj[m]} : m \in DOMAIN adj} :
        adj[p[1]][p[2]].to = n}

\* C12: a SECONDARY node participates in at most one edge: its adjacency
\* list holds at most one edge and at most one stored edge ends at it.
C12_SecondaryAtMostOneEdge ==
    \A n \in DOMAIN node_types :
        node_types[n] = "SECONDARY" =>
            /\ Len(adjacency_list[n]) <= 1
            /\ Cardinality(EdgesEndingAt(adjacency_list, n)) <= 1

\* the outcome that the contract of add_edge gives for the endpoints
ExpectedStatus(nt, adj, from, to) ==
    IF ~({from, to} \subseteq DOMAIN nt) THEN "invalid_argument"
    ELSE IF \E n \in {from, to} : nt[n] = "SECONDARY" /\ Len(adj[n]) > 0
    THEN "logic_error"
    ELSE "ok"

\* a call that failed has just returned
CallFailed ==
    /\ ret.op \in {"add_node", "add_edge"}
    /\ ret.status \in {"invalid_argument", "logic_error"}

\* C13: in every state, add_edge on any endpoints (and any of the weights and
\* directions offered while the graph is built) fails with a structural
\* error when an endpoint is undeclared, else with a constraint error when an
\* endpoint is a SECONDARY node that has an edge, else succeeds, and a
\* failing add_edge returns the edges and flags as they were; every step
\* that ends in a failed add_edge or add_node leaves the nodes, the node
\* types, the edges and the flags unchanged, and add_node fails only with a
\* structural error.
C13_FailuresLeaveGraphAlone ==
    /\ [](\A from \in Nodes, to \in Nodes, wd \in EdgeInputs :
             LET r == add_edge(node_types, adjacency_list, from, to, wd[1],
                               wd[2])
             IN /\ r.status =
                       ExpectedStatus(node_types, adjacency_list, from, to)
                /\ r.status # "ok" => r.adjacency_list = adjacency_list)
    /\ [][CallFailed' =>
             /\ node_types' = node_types
             /\ adjacency_list' = adjacency_list
             /\ ret'.op = "add_node" => ret'.status = "invalid_argument"]_vars

\* C13 witness: an add_edge has just failed with a constraint error on a
\* graph that has an edge, while another add_edge would still succeed
C13_Witness ==
    /\ ret = [op |-> "add_edge", status |-> "logic_error"]
    /\ nedges >= 1
    /\ \E from \in Nodes, to \in Nodes :
          add_edge(node_types, adjacency_list, from, to, 1, EAST).status = "ok"

\* node n has an outgoing edge with direction d
HasOutgoing(adj, n, d) == \E j \in DOMAIN adj[n] : adj[n][j].direction = d

\* C14: the intersection flags of every stored edge are current: for an
\* edge that ends at n, a HORIZONTAL edge has intersection_north (south) set
\* exactly when n has an outgoing NORTH (SOUTH) edge, and a VERTICAL edge has
\* intersection_east (west) set exactly when n has an outgoing EAST (WEST)
\* edge.
C14_IntersectionFlagsCurrent ==
    \A a \in DOMAIN adjacency_list :
        \A i \in DOMAIN adjacency_list[a] :
            LET e == adjacency_list[a][i]
                n == e.to
            IN IF orientation(e) = "HORIZONTAL"
               THEN /\ e.intersection_north <=>
                          HasOutgoing(adjacency_list, n, NORTH)
                    /\ e.intersection_south <=>
                          HasOutgoing(adjacency_list, n, SOUTH)
               ELSE /\ e.intersection_east <=>
                          HasOutgoing(adjacency_list, n, EAST)
                    /\ e.intersection_west <=>
                          HasOutgoing(adjacency_list, n, WEST)

\* C20: find_path never fails with an error and never changes state: every
\* query returns a path or "no path", whatever set_node stored as the
\* current node, and leaves the current node, the nodes and the edges as
\* they were.
C20_FindPathNeverFails ==
    /\ [](Queried => ret.value.kind \in {"path", "nullopt"})
    /\ [][Queried' =>
             /\ current_node' = current_node
             /\ node_types' = node_types
             /\ adjacency_list' = adjacency_list]_vars

====
